---- MODULE Spec2Model ----
(***************************************************************************)
(* A model of the indexing-and-retrieval subsystem of vision-rag-agent:    *)
(* the chunker and the VectorStore of api/ingest.py, the ingestion run     *)
(* main(), the Retriever of api/tools/retriever.py, the router of          *)
(* api/graph.py and ask() of api/query.py.                                 *)
(*                                                                         *)
(* Text is modelled as a sequence of characters, one string per character. *)
(* A non-ASCII character is written "uXXXX", XXXX its code point.          *)
(***************************************************************************)
EXTENDS Integers, Sequences, FiniteSets, TLC

VARIABLES
    question,   \* router: the question being routed
    plan,       \* router: the Plan returned, NoPlan before the call
    txt,        \* chunk_text: the text argument
    size,       \* chunk_text: the size argument
    overlap,    \* chunk_text: the overlap argument
    chunks,     \* chunk_text: the list returned
    chunked,    \* chunk_text: whether the call has returned
    chunk_i,    \* chunk_text: the window start i of its while loop
    vs,         \* ingestion: the VectorStore object
    call,       \* VectorStore: the last add_* call and how it ended
    disk,       \* the store directory on disk
    retriever,  \* the Retriever constructed from the directory, if any
    res,        \* Retriever: the last search call and what it returned
    cfg_file,   \* the settings file of the serving process
    cfg_cache,  \* query.load_cfg's lru_cache
    resp,       \* ask: the last call, the directory it found, and what it returned or raised
    run         \* ingestion: the position of main() and its inputs

routerVars == <<question, plan>>
chunkVars == <<txt, size, overlap, chunks, chunked, chunk_i>>
storeVars == <<vs, call>>
retrVars == <<disk, retriever, res>>
askVars == <<cfg_file, cfg_cache, resp>>
vars ==
    <<question, plan, txt, size, overlap, chunks, chunked, chunk_i, vs, call, disk, retriever,
      res, cfg_file, cfg_cache, resp, run>>

(***************************************************************************)
(* Bounds of the model.                                                    *)
(***************************************************************************)
MaxWords == 2
MaxTextLen == 5
MaxSize == 3
MaxOverlap == 3
MaxNeg == 1
MaxRows == 2
MaxCalls == 3
DimText == 2
DimImage == 3
MaxVecs == 3
MaxK == 4
MaxAsks == 2
MaxDocs == 3
MaxTokens == 3

(***************************************************************************)
(* Strings.                                                                *)
(***************************************************************************)
\* str.lower() on one character: the ASCII capitals map to their small
\* letters, every other character of the model's alphabet is unchanged.
UpperToLower ==
    [c \in {"A", "B", "C", "D", "E", "F", "G", "H", "I", "J", "K", "L", "M", "N", "O", "P"
             , "Q", "R", "S", "T", "U", "V", "W", "X", "Y", "Z"} |->
        CASE c = "A" -> "a" [] c = "B" -> "b" [] c = "C" -> "c" [] c = "D" -> "d"
          [] c = "E" -> "e" [] c = "F" -> "f" [] c = "G" -> "g" [] c = "H" -> "h"
          [] c = "I" -> "i" [] c = "J" -> "j" [] c = "K" -> "k" [] c = "L" -> "l"
          [] c = "M" -> "m" [] c = "N" -> "n" [] c = "O" -> "o" [] c = "P" -> "p"
          [] c = "Q" -> "q" [] c = "R" -> "r" [] c = "S" -> "s" [] c = "T" -> "t"
          [] c = "U" -> "u" [] c = "V" -> "v" [] c = "W" -> "w" [] c = "X" -> "x"
          [] c = "Y" -> "y" [] c = "Z" -> "z"]

LowerChar(c) == IF c \in DOMAIN UpperToLower THEN UpperToLower[c] ELSE c

\* s.lower()
Lower(s) == [i \in 1..Len(s) |-> LowerChar(s[i])]

\* k in s, for strings
Contains(s, k) ==
    \E i \in 0..(Len(s) - Len(k)) : SubSeq(s, i + 1, i + Len(k)) = k

\* any(k in s for k in kws), kws a list of strings
AnyIn(kws, s) == \E j \in 1..Len(kws) : Contains(s, kws[j])

(***************************************************************************)
(* api/graph.py                                                            *)
(***************************************************************************)
TEXT_QA == "text_qa"
VISION_QA == "vision_qa"
TABLE_TO_CSV == "table_to_csv"
CALC == "calc"

KEYWORDS_VISION ==
    << <<"u5716">>,
       <<"f", "i", "g", "u", "r", "e">>,
       <<"a", "r", "r", "o", "w">>,
       <<"u6B64", "u5716">>,
       <<"u4E0A", "u5716">>,
       <<"f", "l", "o", "w">> >>

KEYWORDS_TABLE ==
    << <<"u8868", "u683C">>,
       <<"t", "a", "b", "l", "e">>,
       <<"c", "s", "v">>,
       <<"u6B04", "u4F4D">>,
       <<"u898F", "u683C">> >>

KEYWORDS_CALC ==
    << <<"u52A0", "u7E3D">>,
       <<"u5E73", "u5747">>,
       <<"m", "m">>,
       <<"u63DB", "u7B97">>,
       <<"u6578", "u503C">> >>

\* the literal lists matched against the lowercased question
LowerVision ==
    << <<"f", "i", "g", "u", "r", "e">>,
       <<"d", "i", "a", "g", "r", "a", "m">>,
       <<"i", "m", "a", "g", "e">> >>

LowerTable == << <<"t", "a", "b", "l", "e">>, <<"c", "s", "v">> >>

LowerCalc == << <<"a", "v", "g">>, <<"s", "u", "m">> >>

MatchesVision(q) == AnyIn(LowerVision, Lower(q)) \/ AnyIn(KEYWORDS_VISION, q)
MatchesTable(q) == AnyIn(LowerTable, Lower(q)) \/ AnyIn(KEYWORDS_TABLE, q)
MatchesCalc(q) == AnyIn(LowerCalc, Lower(q)) \/ AnyIn(KEYWORDS_CALC, q)

VisionPlan ==
    [task |-> VISION_QA, steps |-> <<"retrieve_image", "vision_parse", "synthesize", "cite">>]
TablePlan ==
    [task |-> TABLE_TO_CSV, steps |-> <<"table_extract", "synthesize", "cite">>]
CalcPlan ==
    [task |-> CALC, steps |-> <<"retrieve", "python_calc", "synthesize", "cite">>]
TextPlan ==
    [task |-> TEXT_QA, steps |-> <<"retrieve", "synthesize", "cite">>]

\* router with the table test placed before the vision test
router_table_first(q) ==
    IF MatchesTable(q) THEN TablePlan
    ELSE IF MatchesVision(q) THEN VisionPlan
    ELSE IF MatchesCalc(q) THEN CalcPlan
    ELSE TextPlan

router(q) ==
    IF MatchesVision(q) THEN VisionPlan
    ELSE IF MatchesTable(q) THEN TablePlan
    ELSE IF MatchesCalc(q) THEN CalcPlan
    ELSE TextPlan

(***************************************************************************)
(* Questions: the examples of the specification, and every concatenation   *)
(* of at most MaxWords words of a vocabulary that holds terms of each      *)
(* keyword list, in both letter cases.                                      *)
(***************************************************************************)
Q_vision == <<"u8ACB", "u89E3", "u91CB", "u7B2C", "3", "u9801", "u793A", "u610F", "u5716">>
Q_table == <<"u6574", "u7406", "u6210", "c", "s", "v">>
Q_calc == <<"u5E73", "u5747", "u50F9", "u683C", "u662F", "u591A", "u5C11">>
Q_text == <<"u516C", "u53F8", "u6B77", "u53F2">>
Q_eth == <<"E", "T", "H", " ", "u50F9", "u683C", "u8D70", "u52E2">>

Vocabulary ==
    { <<"E", "T", "H">>, <<"b", "t", "c">>, <<"F", "i", "g", "u", "r", "e">>,
      <<"a", "r", "r", "o", "w">>, <<"A", "r", "r", "o", "w">>,
      <<"c", "s", "v">>, <<"T", "A", "B", "L", "E">>, <<"S", "u", "m">>,
      <<"m", "m">>, <<"M", "M">>, <<"u5716">>, <<"u8868", "u683C">>,
      <<"u5E73", "u5747">>, <<"u50F9", "u683C">>, <<"u516C", "u53F8">>, <<" ">> }

RECURSIVE WordsUpTo(_)
WordsUpTo(n) ==
    IF n = 0 THEN {<<>>}
    ELSE WordsUpTo(n - 1) \cup {w \o v : w \in WordsUpTo(n - 1), v \in Vocabulary}

Questions == WordsUpTo(MaxWords) \cup {Q_vision, Q_table, Q_calc, Q_text, Q_eth}

NoPlan == [task |-> "none", steps |-> <<>>]

(***************************************************************************)
(* api/ingest.py: chunk_text                                               *)
(***************************************************************************)
Whitespace == {" "}

\* txt.split(): the maximal runs of non-whitespace characters, in order
RECURSIVE SplitFrom(_, _, _)
SplitFrom(s, i, cur) ==
    IF i > Len(s) THEN (IF cur = <<>> THEN <<>> ELSE <<cur>>)
    ELSE IF s[i] \in Whitespace
         THEN (IF cur = <<>> THEN <<>> ELSE <<cur>>) \o SplitFrom(s, i + 1, <<>>)
         ELSE SplitFrom(s, i + 1, Append(cur, s[i]))

Split(s) == SplitFrom(s, 1, <<>>)

\* " ".join(toks)
RECURSIVE Join(_)
Join(toks) ==
    IF toks = <<>> THEN <<>>
    ELSE IF Len(toks) = 1 THEN toks[1]
    ELSE toks[1] \o <<" ">> \o Join(Tail(toks))

\* chunk.strip()
RECURSIVE Strip(_)
Strip(s) ==
    IF s = <<>> THEN s
    ELSE IF s[1] \in Whitespace THEN Strip(Tail(s))
    ELSE IF s[Len(s)] \in Whitespace THEN Strip(SubSeq(s, 1, Len(s) - 1))
    ELSE s

Min(a, b) == IF a < b THEN a ELSE b
Max(a, b) == IF a > b THEN a ELSE b

\* toks[i : j] for i >= 0 (0-based, Python's slice: a negative j counts from
\* the end, and both ends are clamped to the list)
Slice(toks, i, j) ==
    LET n == Len(toks)
        jj == IF j < 0 THEN Max(j + n, 0) ELSE Min(j, n)
        ii == Min(i, n)
    IN  IF jj > ii THEN SubSeq(toks, ii + 1, jj) ELSE <<>>

\* the step with the overlap left out: max(size, 1)
Step_no_overlap(sz, ov) == Max(sz, 1)

\* the step without its floor of 1: the window start may stay where it is
Step_floor_zero(sz, ov) == Max(sz - ov, 0)

\* the step of the window start: max(size - overlap, 1)
Step(sz, ov) == Max(sz - ov, 1)

\* the while loop of chunk_text, from window start i
RECURSIVE ChunkLoop(_, _, _, _)
ChunkLoop(toks, i, sz, ov) ==
    IF i < Len(toks)
    THEN LET chunk == Join(Slice(toks, i, i + sz))
         IN  (IF Strip(chunk) # <<>> THEN <<chunk>> ELSE <<>>)
                 \o ChunkLoop(toks, i + Step(sz, ov), sz, ov)
    ELSE <<>>

chunk_text(t, sz, ov) == ChunkLoop(Split(t), 0, sz, ov)

TextAlphabet == {"a", "b", " "}

RECURSIVE TextsUpTo(_)
TextsUpTo(n) ==
    IF n = 0 THEN {<<>>}
    ELSE TextsUpTo(n - 1) \cup {Append(t, c) : t \in TextsUpTo(n - 1), c \in TextAlphabet}

Texts == TextsUpTo(MaxTextLen)
Sizes == (0 - MaxNeg)..MaxSize
Overlaps == (0 - MaxNeg)..MaxOverlap

(***************************************************************************)
(* api/ingest.py: VectorStore                                              *)
(*                                                                         *)
(* A numpy array is a record of its shape and its rows; a one-dimensional  *)
(* array of d numbers has shape <<d>> and one row.  An index is the        *)
(* sequence of the vectors added to it, in insertion order.                *)
(***************************************************************************)
\* the unit vector of dimension d along axis a
Unit(d, a) == [i \in 1..d |-> IF i = a THEN 1 ELSE 0]

Array1(row) == [shape |-> <<Len(row)>>, rows |-> <<row>>]
Array2(d, rows) == [shape |-> <<Len(rows), d>>, rows |-> rows]

\* VectorStore.__init__
NewVectorStore ==
    [dim_text |-> DimText, dim_image |-> DimImage,
     text_index |-> <<>>, image_index |-> <<>>,
     text_meta |-> <<>>, image_meta |-> <<>>]

\* faiss Index.add(x) on an index of dimension d: "n, d = x.shape" raises
\* ValueError unless x has two dimensions, "assert d == self.d" raises
\* AssertionError, and otherwise the n rows of x are appended.
IndexAdd(index, d, x) ==
    IF Len(x.shape) # 2 THEN [exc |-> "ValueError", index |-> index]
    ELSE IF x.shape[2] # d THEN [exc |-> "AssertionError", index |-> index]
    ELSE [exc |-> "none", index |-> index \o x.rows]

\* VectorStore.add_text: the store after the call, and the exception raised
add_text(store, vec, meta) ==
    LET r == IndexAdd(store.text_index, store.dim_text, vec)
    IN  IF r.exc # "none" THEN [exc |-> r.exc, store |-> store]
        ELSE [exc |-> "none",
              store |-> [store EXCEPT !.text_index = r.index,
                                      !.text_meta = Append(@, meta)]]

\* VectorStore.add_image
add_image(store, vec, meta) ==
    LET r == IndexAdd(store.image_index, store.dim_image, vec)
    IN  IF r.exc # "none" THEN [exc |-> r.exc, store |-> store]
        ELSE [exc |-> "none",
              store |-> [store EXCEPT !.image_index = r.index,
                                      !.image_meta = Append(@, meta)]]

\* the vectors of dimension d the model adds
RowsOf(d) == {Unit(d, 1), Unit(d, d)}

RECURSIVE RowSeqs(_, _)
RowSeqs(d, n) ==
    IF n = 0 THEN {<<>>}
    ELSE RowSeqs(d, n - 1)
            \cup {Append(rs, r) : rs \in {x \in RowSeqs(d, n - 1) : Len(x) = n - 1},
                                  r \in RowsOf(d)}

\* the arrays handed to add_*: one-dimensional ones, and (n, d) ones for
\* n = 0..MaxRows, of the text and of the image dimension
Arrays ==
    UNION {{Array1(r) : r \in RowsOf(d)} \cup {Array2(d, rs) : rs \in RowSeqs(d, MaxRows)}
           : d \in {DimText, DimImage}}

StoreMetas ==
    {[type |-> <<"t", "e", "x", "t">>, file |-> <<"a", ".", "t", "x", "t">>],
     [type |-> <<"i", "m", "a", "g", "e">>, file |-> <<"b", ".", "p", "n", "g">>]}

\* the last call on the store: the operation, its arguments, the store it was
\* made on and the exception it raised
NoCall ==
    [op |-> "none", exc |-> "none", shape |-> <<>>, vec |-> Array2(0, <<>>), meta |-> <<>>,
     pre |-> NewVectorStore]

(***************************************************************************)
(* api/query.py: the metadata predicate of a question                      *)
(*                                                                         *)
(* A metadata dict is a record whose fields are the keys present.  None    *)
(* and the empty string are both written <<>>: the code reads such values  *)
(* only through "x or ''" and truth tests, which do not tell them apart.   *)
(***************************************************************************)
None == <<>>

\* meta.get(key) or ""
GetOrEmpty(meta, key) == IF key \in DOMAIN meta THEN meta[key] ELSE None

MarketDirs ==
    { <<"m", "a", "r", "k", "e", "t", "s">>,
      <<"m", "a", "r", "k", "e", "t", "s", "_", "b", "i", "n", "a", "n", "c", "e">>,
      <<"m", "a", "r", "k", "e", "t", "s", "_", "c", "o", "m", "b", "i", "n", "e", "d">> }

_is_market_meta(meta) ==
    LET od == Lower(GetOrEmpty(meta, "origin_dir"))
        t == Lower(GetOrEmpty(meta, "type"))
    IN  t = <<"c", "s", "v">> \/ od \in MarketDirs

\* the file test of pred: fname == f"{coin_id}.csv"
FileIsCoin(meta, coin_id) ==
    Lower(GetOrEmpty(meta, "file")) = coin_id \o <<".", "c", "s", "v">>

\* pred without the file test
pred_market_only(coin_id, meta) == _is_market_meta(meta)

\* the closure pred built by _predicate_for_question, for its coin_id
pred(coin_id, meta) ==
    IF ~_is_market_meta(meta) THEN FALSE
    ELSE IF coin_id # None THEN FileIsCoin(meta, coin_id)
    ELSE TRUE

\* A predicate argument is NoPredicate (None) or a closure of pred, written
\* as the record of the coin_id it closes over.
NoPredicate == [fn |-> "None", coin_id |-> None]
PredOf(coin_id) == [fn |-> "pred", coin_id |-> coin_id]
ApplyPredicate(p, meta) == pred(p.coin_id, meta)

(***************************************************************************)
(* api/tools/retriever.py                                                  *)
(*                                                                         *)
(* A file of the store directory is absent, unreadable (present, and       *)
(* reading it fails) or holds a value.  A loaded index is the record of    *)
(* its dimension d and its vectors; positions are counted from 1.          *)
(***************************************************************************)
Absent == [st |-> "absent"]
Corrupt == [st |-> "corrupt"]
Holds(v) == [st |-> "ok", val |-> v]

NoIndex == [loaded |-> FALSE, d |-> 0, vecs |-> <<>>]
Index(d, vecs) == [loaded |-> TRUE, d |-> d, vecs |-> vecs]
ntotal(idx) == Len(idx.vecs)

\* _load_faiss raising for a missing file
_load_faiss_strict(file) ==
    IF file.st = "absent" THEN [exc |-> "StoreNotFound", val |-> NoIndex]
    ELSE IF file.st = "corrupt" THEN [exc |-> "RuntimeError", val |-> NoIndex]
    ELSE [exc |-> "none", val |-> file.val]

\* Retriever._load_faiss: None (and a warning) for a missing file,
\* RuntimeError for one that cannot be read
_load_faiss(file) ==
    IF file.st = "absent" THEN [exc |-> "none", val |-> NoIndex]
    ELSE IF file.st = "corrupt" THEN [exc |-> "RuntimeError", val |-> NoIndex]
    ELSE [exc |-> "none", val |-> file.val]

\* Retriever._load_json: [] (and a warning) for a missing file
_load_json(file) ==
    IF file.st = "absent" THEN [exc |-> "none", val |-> <<>>]
    ELSE IF file.st = "corrupt" THEN [exc |-> "RuntimeError", val |-> <<>>]
    ELSE [exc |-> "none", val |-> file.val]

NoRetriever ==
    [text_idx |-> NoIndex, img_idx |-> NoIndex, text_meta |-> <<>>, img_meta |-> <<>>,
     warned |-> {}]

\* Retriever.__init__(base_dir) on the directory d: the four loads in order,
\* the first exception ending the construction, then the two consistency
\* warnings.  A path under a directory that does not exist does not exist.
FileOf(d, name) == IF d.exists THEN d[name] ELSE Absent

Retriever(d) ==
    LET ti == _load_faiss(FileOf(d, "text_faiss"))
        ii == _load_faiss(FileOf(d, "image_faiss"))
        tm == _load_json(FileOf(d, "text_meta_json"))
        im == _load_json(FileOf(d, "image_meta_json"))
        excs == <<ti.exc, ii.exc, tm.exc, im.exc>>
        bad == {n \in 1..4 : excs[n] # "none"}
        first == CHOOSE n \in bad : \A m \in bad : n <= m
    IN  IF bad # {} THEN [exc |-> excs[first], obj |-> NoRetriever]
        ELSE [exc |-> "none",
              obj |-> [text_idx |-> ti.val, img_idx |-> ii.val,
                       text_meta |-> tm.val, img_meta |-> im.val,
                       warned |->
                          (IF ti.val.loaded /\ Len(tm.val) # ntotal(ti.val)
                           THEN {"text"} ELSE {})
                          \cup
                          (IF ii.val.loaded /\ Len(im.val) # ntotal(ii.val)
                           THEN {"image"} ELSE {})]]

Sign(x) == IF x > 0 THEN 1 ELSE IF x < 0 THEN 0 - 1 ELSE 0

\* faiss.normalize_L2 on one row.  The model's query rows have at most one
\* non-zero component, so dividing by the norm leaves its sign; a zero row is
\* left as it is.
NormalizeRow(row) == [i \in 1..Len(row) |-> Sign(row[i])]

\* _prep_query cutting or zero-filling the query to dim instead of raising
_prep_query_coerce(q_vec, dim) ==
    [exc |-> "none",
     val |-> [shape |-> <<Len(q_vec.rows), dim>>,
              rows |-> [n \in 1..Len(q_vec.rows) |->
                           [i \in 1..dim |-> IF i <= Len(q_vec.rows[n])
                                             THEN Sign(q_vec.rows[n][i]) ELSE 0]]]]

\* Retriever._prep_query(q_vec, dim)
_prep_query(q_vec, dim) ==
    LET q == IF Len(q_vec.shape) = 1
             THEN [shape |-> <<1, q_vec.shape[1]>>, rows |-> q_vec.rows]
             ELSE q_vec
    IN  IF q.shape[2] # dim THEN [exc |-> "ValueError", val |-> q]
        ELSE [exc |-> "none",
              val |-> [shape |-> q.shape,
                       rows |-> [n \in 1..Len(q.rows) |-> NormalizeRow(q.rows[n])]]]

\* the inner product of two vectors of one dimension
RECURSIVE DotFrom(_, _, _)
DotFrom(a, b, i) == IF i > Len(a) THEN 0 ELSE a[i] * b[i] + DotFrom(a, b, i + 1)
Dot(a, b) == DotFrom(a, b, 1)

\* the positions of S by descending score, an earlier position first among
\* equal scores
RECURSIVE Ranked(_, _)
Ranked(scores, S) ==
    IF S = {} THEN <<>>
    ELSE LET best == CHOOSE i \in S :
                        \A j \in S : scores[i] > scores[j]
                                        \/ (scores[i] = scores[j] /\ i <= j)
         IN  <<best>> \o Ranked(scores, S \ {best})

\* faiss IndexFlatIP.search(qv, k) for the first row of qv, 1 <= k <= ntotal:
\* the k best positions I and their scores D
IndexSearch(idx, row, k) ==
    LET scores == [i \in 1..ntotal(idx) |-> Dot(row, idx.vecs[i])]
        I == SubSeq(Ranked(scores, 1..ntotal(idx)), 1, k)
    IN  [I |-> I, D |-> [n \in 1..Len(I) |-> scores[I[n]]]]

\* [p for p in pairs if predicate(p[1])]
RECURSIVE FilterPairs(_, _)
FilterPairs(pairs, p) ==
    IF pairs = <<>> THEN <<>>
    ELSE (IF ApplyPredicate(p, pairs[1][2]) THEN <<pairs[1]>> ELSE <<>>)
            \o FilterPairs(Tail(pairs), p)

\* the shared body with k bounded by ntotal only, not raised to 1
RankedPairs_no_floor(idx, meta, q_vec, k) ==
    IF ~idx.loaded \/ ntotal(idx) = 0 THEN [exc |-> "none", pairs |-> <<>>]
    ELSE LET qv == _prep_query(q_vec, idx.d)
             kk == Max(Min(k, ntotal(idx)), 0)
         IN  IF qv.exc # "none" THEN [exc |-> qv.exc, pairs |-> <<>>]
             ELSE IF qv.val.rows = <<>> THEN [exc |-> "IndexError", pairs |-> <<>>]
             ELSE LET r == IndexSearch(idx, qv.val.rows[1], kk)
                  IN  IF \E n \in 1..Len(r.I) : r.I[n] > Len(meta)
                      THEN [exc |-> "IndexError", pairs |-> <<>>]
                      ELSE [exc |-> "none",
                            pairs |-> [n \in 1..Len(r.I) |-> <<r.D[n], meta[r.I[n]]>>]]

\* the body shared by search_text and search_image up to the predicate, on
\* an index and its metadata list: the pairs built, or the exception raised
RankedPairs(idx, meta, q_vec, k) ==
    IF ~idx.loaded \/ ntotal(idx) = 0 THEN [exc |-> "none", pairs |-> <<>>]
    ELSE LET qv == _prep_query(q_vec, idx.d)
             kk == Min(Max(k, 1), ntotal(idx))
         IN  IF qv.exc # "none" THEN [exc |-> qv.exc, pairs |-> <<>>]
             ELSE IF qv.val.rows = <<>> THEN [exc |-> "IndexError", pairs |-> <<>>]
             ELSE LET r == IndexSearch(idx, qv.val.rows[1], kk)
                  IN  IF \E n \in 1..Len(r.I) : r.I[n] > Len(meta)
                      THEN [exc |-> "IndexError", pairs |-> <<>>]
                      ELSE [exc |-> "none",
                            pairs |-> [n \in 1..Len(r.I) |-> <<r.D[n], meta[r.I[n]]>>]]

\* the body with the query prepared before the empty-index test
Search_prep_first(idx, meta, q_vec, k, p) ==
    LET qv == _prep_query(q_vec, idx.d)
        r == RankedPairs(idx, meta, q_vec, k)
    IN  IF qv.exc # "none" THEN [exc |-> qv.exc, pairs |-> <<>>]
        ELSE IF r.exc = "none" /\ p.fn # "None"
             THEN [exc |-> "none", pairs |-> FilterPairs(r.pairs, p)]
             ELSE r

\* the body with the predicate applied to the index before the ranking
Search_filter_first(idx, meta, q_vec, k, p) ==
    IF p.fn = "None" \/ ~idx.loaded \/ Len(meta) # ntotal(idx)
    THEN RankedPairs(idx, meta, q_vec, k)
    ELSE LET keep == {i \in 1..Len(meta) : ApplyPredicate(p, meta[i])}
             pos == Ranked([i \in 1..Len(meta) |-> 0 - i], keep)
         IN  RankedPairs(Index(idx.d, [n \in 1..Len(pos) |-> idx.vecs[pos[n]]]),
                         [n \in 1..Len(pos) |-> meta[pos[n]]], q_vec, k)

\* the whole body: the pairs, filtered by the predicate when one is given
Search(idx, meta, q_vec, k, p) ==
    LET r == RankedPairs(idx, meta, q_vec, k)
    IN  IF r.exc = "none" /\ p.fn # "None"
        THEN [exc |-> "none", pairs |-> FilterPairs(r.pairs, p)]
        ELSE r

search_text(ret, q_vec, k, p) == Search(ret.text_idx, ret.text_meta, q_vec, k, p)

search_image(ret, q_vec, k, p) == Search(ret.img_idx, ret.img_meta, q_vec, k, p)

(***************************************************************************)
(* Store directories.                                                      *)
(***************************************************************************)
M_eth ==
    [type |-> <<"c", "s", "v">>,
     file |-> <<"e", "t", "h", "e", "r", "e", "u", "m", ".", "c", "s", "v">>,
     source_set |-> <<"coingecko">>,
     origin_dir |-> <<"m", "a", "r", "k", "e", "t", "s">>]
M_btc ==
    [type |-> <<"c", "s", "v">>,
     file |-> <<"b", "i", "t", "c", "o", "i", "n", ".", "c", "s", "v">>,
     source_set |-> <<"coingecko">>,
     origin_dir |-> <<"m", "a", "r", "k", "e", "t", "s">>]
M_notes ==
    [type |-> <<"t", "e", "x", "t">>, file |-> <<"n", "o", "t", "e", "s", ".", "t", "x", "t">>]
M_page ==
    [type |-> <<"p", "d", "f", "_", "i", "m", "a", "g", "e">>,
     file |-> <<"e", "t", "h", ".", "p", "d", "f">>, page |-> 1]

\* the directory written by VectorStore.save for a store
Saved(store) ==
    [exists |-> TRUE,
     text_faiss |-> Holds(Index(store.dim_text, store.text_index)),
     image_faiss |-> Holds(Index(store.dim_image, store.image_index)),
     text_meta_json |-> Holds(store.text_meta),
     image_meta_json |-> Holds(store.image_meta)]

NoDisk ==
    [exists |-> FALSE, text_faiss |-> Absent, image_faiss |-> Absent,
     text_meta_json |-> Absent, image_meta_json |-> Absent]

\* the text records the stores are built from: two vectors, each under two
\* metadata
TextRecords ==
    {<<Unit(DimText, 1), M_eth>>, <<Unit(DimText, 1), M_notes>>,
     <<Unit(DimText, DimText), M_btc>>, <<Unit(DimText, DimText), M_eth>>}

\* the stores of at most n text records
RECURSIVE TextStores(_)
TextStores(n) ==
    IF n = 0 THEN {NewVectorStore}
    ELSE TextStores(n - 1)
            \cup {add_text(st, Array2(DimText, <<r[1]>>), r[2]).store :
                    st \in {x \in TextStores(n - 1) : Len(x.text_meta) = n - 1},
                    r \in TextRecords}

\* a store with its image index empty or holding one page image
WithImages(st) == {st, add_image(st, Array2(DimImage, <<Unit(DimImage, 1)>>), M_page).store}

\* d with the last entry of its text metadata file missing
ShortMeta(d) ==
    [d EXCEPT !.text_meta_json =
        Holds(SubSeq(d.text_meta_json.val, 1, Len(d.text_meta_json.val) - 1))]

\* the directories saved from whole stores, and the same with the text
\* metadata one entry short
WholeDisks == {Saved(st) : st \in UNION {WithImages(x) : x \in TextStores(MaxVecs)}}
ShortDisks == {ShortMeta(d) : d \in {x \in WholeDisks : x.text_meta_json.val # <<>>}}

\* the directories in which each file is absent, unreadable or that of a
\* one-record store, and the directory that does not exist
SmallStore ==
    add_image(add_text(NewVectorStore, Array2(DimText, <<Unit(DimText, 1)>>), M_eth).store,
              Array2(DimImage, <<Unit(DimImage, 1)>>), M_page).store

DamagedDisks ==
    {[exists |-> TRUE, text_faiss |-> a, image_faiss |-> b,
      text_meta_json |-> c, image_meta_json |-> e] :
        a \in {Absent, Corrupt, Saved(SmallStore).text_faiss},
        b \in {Absent, Corrupt, Saved(SmallStore).image_faiss},
        c \in {Absent, Corrupt, Saved(SmallStore).text_meta_json},
        e \in {Absent, Corrupt, Saved(SmallStore).image_meta_json}}
    \cup {NoDisk}

Disks == WholeDisks \cup ShortDisks \cup DamagedDisks

\* the query arrays: rows of the text and of the image dimension, as (d,)
\* and as (1, d), not all of unit length, and an array of no rows
QueryArrays ==
    {Array1(Unit(DimText, 1)),
     Array1([i \in 1..DimText |-> IF i = DimText THEN 2 ELSE 0]),
     Array2(DimText, <<[i \in 1..DimText |-> IF i = 1 THEN 0 - 1 ELSE 0]>>),
     Array1(Unit(DimImage, 1)),
     Array2(DimImage, <<Unit(DimImage, DimImage)>>),
     Array2(DimText, <<>>)}

Ks == (0 - MaxNeg)..MaxK

Predicates ==
    {NoPredicate, PredOf(None), PredOf(<<"e", "t", "h", "e", "r", "e", "u", "m">>)}

NotBuilt == [state |-> "none", exc |-> "none", obj |-> NoRetriever]
NoResult ==
    [op |-> "none", q |-> Array2(0, <<>>), k |-> 0, p |-> NoPredicate,
     exc |-> "none", pairs |-> <<>>]

(***************************************************************************)
(* api/query.py: configuration, coin detection and ask                     *)
(***************************************************************************)
OverFetch == 20
MaxHits == 3
DefaultTopK == 5

\* the built-in configuration load_cfg returns when no settings file exists
DefaultCfg ==
    [embed |-> [text_model |-> "sentence-transformers/all-MiniLM-L6-v2",
                image_model |-> "clip-ViT-B-32"],
     retrieval |-> [top_k_text |-> DefaultTopK],
     storage |-> [vector_dir |-> "data/embeddings"]]

NoCache == [set |-> FALSE, val |-> DefaultCfg]

\* load_cfg under its lru_cache: the cached value if there is one; else the
\* parsed settings file (reading it may raise, and a raise is not cached),
\* or the built-in configuration when there is no file
load_cfg(file, cache) ==
    IF cache.set THEN [exc |-> "none", val |-> cache.val, cache |-> cache]
    ELSE IF file.st = "corrupt" THEN [exc |-> "YAMLError", val |-> DefaultCfg, cache |-> cache]
    ELSE LET cfg == IF file.st = "absent" THEN DefaultCfg ELSE file.val
         IN  [exc |-> "none", val |-> cfg, cache |-> [set |-> TRUE, val |-> cfg]]

\* whether cfg[a][b] can be read (KeyError otherwise)
HasPath(cfg, a, b) == a \in DOMAIN cfg /\ b \in DOMAIN cfg[a]

_COIN_ALIASES ==
    << << <<"e", "t", "h">>, <<"e", "t", "h", "e", "r", "e", "u", "m">> >>,
       << <<"e", "t", "h", "e", "r", "e", "u", "m">>, <<"e", "t", "h", "e", "r", "e", "u", "m">> >>,
       << <<"b", "t", "c">>, <<"b", "i", "t", "c", "o", "i", "n">> >>,
       << <<"b", "i", "t", "c", "o", "i", "n">>, <<"b", "i", "t", "c", "o", "i", "n">> >>,
       << <<"s", "o", "l">>, <<"s", "o", "l", "a", "n", "a">> >>,
       << <<"s", "o", "l", "a", "n", "a">>, <<"s", "o", "l", "a", "n", "a">> >>,
       << <<"b", "n", "b">>, <<"b", "i", "n", "a", "n", "c", "e", "c", "o", "i", "n">> >>,
       << <<"x", "r", "p">>, <<"r", "i", "p", "p", "l", "e">> >>,
       << <<"a", "d", "a">>, <<"c", "a", "r", "d", "a", "n", "o">> >>,
       << <<"d", "o", "g", "e">>, <<"d", "o", "g", "e", "c", "o", "i", "n">> >>,
       << <<"t", "o", "n">>, <<"t", "o", "n", "c", "o", "i", "n">> >>,
       << <<"t", "r", "x">>, <<"t", "r", "o", "n">> >>,
       << <<"a", "v", "a", "x">>, <<"a", "v", "a", "l", "a", "n", "c", "h", "e", "-", "2">> >> >>

\* the loop of _extract_coin_id from the n-th alias, in the dict's order
RECURSIVE FirstAlias(_, _)
FirstAlias(ql, n) ==
    IF n > Len(_COIN_ALIASES) THEN None
    ELSE IF Contains(ql, _COIN_ALIASES[n][1]) THEN _COIN_ALIASES[n][2]
    ELSE FirstAlias(ql, n + 1)

_extract_coin_id(q) == FirstAlias(Lower(q), 1)

MarketKeywords ==
    << <<"u50F9", "u683C">>, <<"u8D70", "u52E2">>, <<"u5747", "u50F9">>,
       <<"u5747", "u7DDA">>, <<"u79FB", "u52D5", "u5E73", "u5747">>, <<"m", "a">>,
       <<"u6210", "u4EA4", "u91CF">>, <<"p", "r", "i", "c", "e">>,
       <<"t", "r", "e", "n", "d">>, <<"v", "o", "l", "u", "m", "e">>,
       <<"m", "o", "v", "i", "n", "g", " ", "a", "v", "e", "r", "a", "g", "e">>,
       <<"v", "o", "l", "a", "t", "i", "l", "i", "t", "y">> >>

_wants_market_only(q) == AnyIn(MarketKeywords, Lower(q))

\* _predicate_for_question giving a predicate only when a coin is detected
_predicate_for_question_coin_only(q) ==
    LET coin_id == _extract_coin_id(q)
    IN  IF coin_id = None THEN NoPredicate ELSE PredOf(coin_id)

_predicate_for_question(q) ==
    LET wants_market == _wants_market_only(q)
        coin_id == _extract_coin_id(q)
    IN  IF ~wants_market /\ coin_id = None THEN NoPredicate ELSE PredOf(coin_id)

\* the text handed to encode_text
QForEmbed(q) ==
    LET cid == _extract_coin_id(q)
    IN  IF cid # None THEN q \o <<" ", "[", "c", "o", "i", "n", ":">> \o cid \o <<"]">>
        ELSE q

\* get_retriever under its lru_cache: the cached Retriever if there is one;
\* else KeyError without storage.vector_dir, FileNotFoundError without the
\* directory, and otherwise the Retriever constructed, cached unless the
\* constructor raised
get_retriever(cfg, d, cache) ==
    IF cache.state = "built" THEN [exc |-> "none", obj |-> cache.obj, cache |-> cache]
    ELSE IF ~HasPath(cfg, "storage", "vector_dir")
         THEN [exc |-> "KeyError", obj |-> NoRetriever, cache |-> cache]
    ELSE IF ~d.exists
         THEN [exc |-> "FileNotFoundError", obj |-> NoRetriever, cache |-> cache]
    ELSE LET r == Retriever(d)
         IN  IF r.exc # "none" THEN [exc |-> r.exc, obj |-> NoRetriever, cache |-> cache]
             ELSE [exc |-> "none", obj |-> r.obj,
                   cache |-> [state |-> "built", exc |-> "none", obj |-> r.obj]]

\* the try block with the candidates cut to top_k before the predicate is
\* applied to them
AskTry_truncate_first(q, cfg, enc, d, cache) ==
    IF ~HasPath(cfg, "embed", "text_model")
    THEN [exc |-> "KeyError", hits |-> <<>>, cache |-> cache]
    ELSE IF enc.exc # "none" THEN [exc |-> enc.exc, hits |-> <<>>, cache |-> cache]
    ELSE LET g == get_retriever(cfg, d, cache)
         IN  IF g.exc # "none" THEN [exc |-> g.exc, hits |-> <<>>, cache |-> cache]
             ELSE IF ~HasPath(cfg, "retrieval", "top_k_text")
                  THEN [exc |-> "KeyError", hits |-> <<>>, cache |-> g.cache]
             ELSE LET top_k == cfg.retrieval.top_k_text
                      predicate == _predicate_for_question(q)
                      r == search_text(g.obj, enc.val, Max(OverFetch, top_k), NoPredicate)
                      cut == Slice(r.pairs, 0, top_k)
                      raw_hits == IF predicate.fn # "None"
                                  THEN FilterPairs(cut, predicate)
                                  ELSE cut
                  IN  IF r.exc # "none"
                      THEN [exc |-> r.exc, hits |-> <<>>, cache |-> g.cache]
                      ELSE [exc |-> "none", hits |-> Slice(raw_hits, 0, top_k),
                            cache |-> g.cache]

\* the try block of ask: the hits, or the exception raised, and the
\* retriever cache afterwards.  enc is what encode_text does for the question:
\* the array it returns or the exception it raises.
AskTry(q, cfg, enc, d, cache) ==
    IF ~HasPath(cfg, "embed", "text_model")
    THEN [exc |-> "KeyError", hits |-> <<>>, cache |-> cache]
    ELSE IF enc.exc # "none" THEN [exc |-> enc.exc, hits |-> <<>>, cache |-> cache]
    ELSE LET g == get_retriever(cfg, d, cache)
         IN  IF g.exc # "none" THEN [exc |-> g.exc, hits |-> <<>>, cache |-> cache]
             ELSE IF ~HasPath(cfg, "retrieval", "top_k_text")
                  THEN [exc |-> "KeyError", hits |-> <<>>, cache |-> g.cache]
             ELSE LET top_k == cfg.retrieval.top_k_text
                      predicate == _predicate_for_question(q)
                      r == search_text(g.obj, enc.val, Max(OverFetch, top_k), NoPredicate)
                      raw_hits == IF predicate.fn # "None"
                                  THEN FilterPairs(r.pairs, predicate)
                                  ELSE r.pairs
                  IN  IF r.exc # "none"
                      THEN [exc |-> r.exc, hits |-> <<>>, cache |-> g.cache]
                      ELSE [exc |-> "none", hits |-> Slice(raw_hits, 0, top_k),
                            cache |-> g.cache]

NoAnswer == [kind |-> "none", origin |-> <<>>, page |-> <<>>]

\* the answer string: the error text of an except branch, or the placeholder
\* with the note on the top hit
Answer(exc, hits) ==
    IF exc = "FileNotFoundError" THEN [kind |-> "error", origin |-> <<>>, page |-> <<>>]
    ELSE IF exc # "none"
         THEN [kind |-> "error_retrieval_failed", origin |-> <<>>, page |-> <<>>]
    ELSE IF hits # <<>>
         THEN LET meta == hits[1][2]
              IN  [kind |-> "top_hit", origin |-> GetOrEmpty(meta, "file"),
                   page |-> IF "page" \in DOMAIN meta THEN <<meta.page>> ELSE <<>>]
    ELSE [kind |-> "no_hit", origin |-> <<>>, page |-> <<>>]

\* ask(question): load_cfg and router come before the try block, so what
\* they raise leaves ask; what the try block raises is turned into a response
\* with no hits
ask(q, file, cfgc, enc, d, cache) ==
    LET lc == load_cfg(file, cfgc)
    IN  IF lc.exc # "none"
        THEN [raised |-> TRUE, exc |-> lc.exc, plan |-> NoPlan, hits |-> <<>>,
              answer |-> NoAnswer, cfgc |-> lc.cache, cache |-> cache]
        ELSE LET t == AskTry(q, lc.val, enc, d, cache)
             IN  [raised |-> FALSE, exc |-> t.exc, plan |-> router(q),
                  hits |-> IF t.exc # "none" THEN <<>> ELSE Slice(t.hits, 0, MaxHits),
                  answer |-> Answer(t.exc, t.hits),
                  cfgc |-> lc.cache, cache |-> t.cache]

(***************************************************************************)
(* The serving process: settings files, store directories, questions.      *)
(***************************************************************************)
\* the settings files: none, one that cannot be parsed, whole ones with a
\* top_k_text from 0, and ones lacking a section
CfgWith(k) == [DefaultCfg EXCEPT !.retrieval = [top_k_text |-> k]]

CfgFiles ==
    {Absent, Corrupt, Holds(CfgWith(0)), Holds(CfgWith(1)), Holds(CfgWith(2)),
     Holds([embed |-> DefaultCfg.embed, storage |-> DefaultCfg.storage]),
     Holds([embed |-> DefaultCfg.embed, retrieval |-> DefaultCfg.retrieval]),
     Holds([retrieval |-> DefaultCfg.retrieval, storage |-> DefaultCfg.storage])}

M_ethUpper ==
    [type |-> <<"C", "S", "V">>,
     file |-> <<"E", "t", "h", "e", "r", "e", "u", "m", ".", "C", "S", "V">>]
M_ethDoc ==
    [type |-> <<"t", "e", "x", "t">>,
     file |-> <<"e", "t", "h", "e", "r", "e", "u", "m", ".", "c", "s", "v">>]
M_ethPdf ==
    [type |-> <<"p", "d", "f", "_", "t", "e", "x", "t">>,
     file |-> <<"e", "t", "h", ".", "p", "d", "f">>, page |-> 2,
     origin_dir |-> <<"M", "a", "r", "k", "e", "t", "s">>]

\* the store holding the text records rs, added in order
RECURSIVE StoreOf(_)
StoreOf(rs) ==
    IF rs = <<>> THEN NewVectorStore
    ELSE add_text(StoreOf(SubSeq(rs, 1, Len(rs) - 1)),
                  Array2(DimText, <<rs[Len(rs)][1]>>), rs[Len(rs)][2]).store

\* the stores asked: the empty one; one of ethereum.csv and bitcoin.csv
\* records and a note, in two orders; one whose file names and tags differ in
\* letter case from the coin table's and which holds records that are not
\* CSV records of a market directory; one of notes only
AskStores ==
    {NewVectorStore,
     StoreOf(<< <<Unit(DimText, 1), M_btc>>, <<Unit(DimText, 1), M_eth>>,
                <<Unit(DimText, DimText), M_notes>>, <<Unit(DimText, DimText), M_eth>> >>),
     StoreOf(<< <<Unit(DimText, DimText), M_notes>>, <<Unit(DimText, 1), M_btc>>,
                <<Unit(DimText, DimText), M_eth>> >>),
     StoreOf(<< <<Unit(DimText, 1), M_ethPdf>>, <<Unit(DimText, 1), M_ethUpper>>,
                <<Unit(DimText, DimText), M_ethDoc>>, <<Unit(DimText, DimText), M_btc>> >>),
     StoreOf(<< <<Unit(DimText, 1), M_notes>>, <<Unit(DimText, DimText), M_notes>> >>)}

\* the directory created by a VectorStore that has not been saved
EmptyDir == [NoDisk EXCEPT !.exists = TRUE]

\* the directories of the saved stores, the same with the text metadata one
\* entry short, no directory, an empty directory, and directories with an
\* unreadable index file and with no text metadata file
AskDisks ==
    {Saved(st) : st \in AskStores}
        \cup {ShortMeta(Saved(st)) : st \in {x \in AskStores : x.text_meta # <<>>}}
        \cup {NoDisk, EmptyDir,
              [Saved(SmallStore) EXCEPT !.text_faiss = Corrupt],
              [Saved(SmallStore) EXCEPT !.text_meta_json = Absent]}

AskQuestions ==
    {Q_eth, Q_text, Q_calc, Q_vision,
     <<"M", "e", "t", "h", "o", "d">>,
     <<"b", "t", "c", " ", "E", "T", "H">>,
     <<"B", "I", "T", "C", "O", "I", "N", " ", "p", "r", "i", "c", "e">>}

\* what encode_text may do: return a (1, d) array, d the dimension of the
\* text model in use, or raise (the model cannot be loaded)
Encodings ==
    {[exc |-> "none", val |-> Array2(DimText, <<Unit(DimText, 1)>>)],
     [exc |-> "none", val |-> Array2(DimText, <<Unit(DimText, DimText)>>)],
     [exc |-> "none", val |-> Array2(DimImage, <<Unit(DimImage, 1)>>)],
     [exc |-> "OSError", val |-> Array2(0, <<>>)]}

NoResp ==
    [n |-> 0, q |-> <<>>, enc |-> [exc |-> "none", val |-> Array2(0, <<>>)], disk |-> NoDisk,
     raised |-> FALSE, exc |-> "none", plan |-> NoPlan, hits |-> <<>>, answer |-> NoAnswer]

(***************************************************************************)
(* api/ingest.py: the ingestion run                                        *)
(*                                                                         *)
(* A discovered file is a record of its suffix, what it holds and the step *)
(* of its processing that fails ("none": no step).  A CSV file holds its   *)
(* parent directory and, row by row, the cell of its source column.  The   *)
(* encoders are black boxes whose vectors main never reads: every text     *)
(* embedding is written Unit(DimText, 1) and every image embedding         *)
(* Unit(DimImage, 1), of shape (1, dim).                                   *)
(***************************************************************************)
ChunkSize == 600
ChunkOverlap == 80
BlockSize == 30

TextEmbedding == Array2(DimText, <<Unit(DimText, 1)>>)
ImageEmbedding == Array2(DimImage, <<Unit(DimImage, 1)>>)

\* "for ch in chunk_text(txt): vs.add_text(encode(ch), meta)", for the n-th
\* chunk onwards
RECURSIVE AddChunks(_, _, _, _)
AddChunks(store, chs, n, meta) ==
    IF n > Len(chs) THEN store
    ELSE AddChunks(add_text(store, TextEmbedding, meta).store, chs, n + 1, meta)

EmbedChunks(store, text, meta) ==
    AddChunks(store, chunk_text(text, ChunkSize, ChunkOverlap), 1, meta)

\* main, step 1 of a PDF: the text of pages n.. of the file, page by page
RECURSIVE PdfTextPages(_, _, _, _)
PdfTextPages(store, name, pages, n) ==
    IF n > Len(pages) THEN store
    ELSE LET added == IF Strip(pages[n]) # <<>>
                      THEN EmbedChunks(store, pages[n],
                                   [type |-> <<"p", "d", "f", "_", "t", "e", "x", "t">>,
                                    file |-> name, page |-> n])
                      ELSE store
         IN  PdfTextPages(added, name, pages, n + 1)

\* ocr_image_to_text: "" without pytesseract or when it raises
ocr_image_to_text(doc) == IF doc.fail = "pages" THEN <<>> ELSE doc.ocr_text

\* main, step 2 of a PDF: the page images n.. of the file; a failed image
\* embedding is caught and the page goes on to its OCR
RECURSIVE PdfImagePages(_, _, _, _, _, _)
PdfImagePages(store, name, doc, n_images, ocr, n) ==
    IF n > n_images THEN store
    ELSE LET imaged == IF doc.fail = "pages" THEN store
                       ELSE add_image(store, ImageEmbedding,
                                      [type |-> <<"p", "d", "f", "_", "i", "m", "a", "g", "e">>,
                                       file |-> name, page |-> n]).store
             read == IF ocr.enabled
                     THEN EmbedChunks(imaged, ocr_image_to_text(doc),
                                  [type |-> <<"p", "d", "f", "_", "o", "c", "r">>,
                                   file |-> name, page |-> n, lang |-> ocr.lang])
                     ELSE imaged
         IN  PdfImagePages(read, name, doc, n_images, ocr, n + 1)

\* the default provenance of a CSV file, from its parent directory
DefaultSource(origin_dir) ==
    IF origin_dir = <<"m", "a", "r", "k", "e", "t", "s">> THEN "coingecko"
    ELSE IF origin_dir
               = <<"m", "a", "r", "k", "e", "t", "s", "_", "b", "i", "n", "a", "n", "c", "e">>
         THEN "binance"
    ELSE "mixed"

\* str(r.get("source")) for a cell of the source column: pandas reads an
\* empty cell (written "") as NaN, and str(NaN) is "nan"
StrOfCell(cell) == IF cell = "" THEN "nan" ELSE cell

\* the provenance of a row: str(r.get("source")) when the file has a source
\* column, the default otherwise or when that string is empty
RowSource(doc, n) ==
    LET default_source == DefaultSource(doc.origin_dir)
        src == IF doc.has_src_col THEN StrOfCell(doc.rows[n]) ELSE default_source
    IN  IF src # "" THEN src ELSE default_source

\* sorted(set(srcs)) over the provenance strings of the model
TagOrder == <<"binance", "coingecko", "mixed", "nan">>
SortedSet(S) == SelectSeq(TagOrder, LAMBDA t : t \in S)

\* ingest_csv_file, the block loop from row i (counted from 0)
RECURSIVE CsvBlocks(_, _, _, _)
CsvBlocks(store, name, doc, i) ==
    IF i >= Len(doc.rows) THEN store
    ELSE LET last == Min(i + BlockSize, Len(doc.rows))
             source_set == SortedSet({RowSource(doc, n) : n \in (i + 1)..last})
         IN  CsvBlocks(add_text(store, TextEmbedding,
                                [type |-> <<"c", "s", "v">>, file |-> name,
                                 source_set |-> source_set,
                                 origin_dir |-> doc.origin_dir]).store,
                       name, doc, i + BlockSize)

\* ingest_csv_file: whatever is raised inside is caught
ingest_csv_file(store, name, doc) ==
    IF doc.fail = "parse" THEN store ELSE CsvBlocks(store, name, doc, 0)

Done(store) == [exc |-> "none", store |-> store]

\* the body of main's loop for one file: the store afterwards, and the
\* exception that leaves the loop, if any
IngestFile(store, name, doc, ocr) ==
    LET suffix == Lower(doc.suffix)
    IN  IF suffix \in {<<".", "t", "x", "t">>, <<".", "m", "d">>}
        THEN IF doc.fail = "read" THEN [exc |-> "OSError", store |-> store]
             ELSE Done(EmbedChunks(store, doc.text,
                               [type |-> <<"t", "e", "x", "t">>, file |-> name]))
        ELSE IF suffix = <<".", "d", "o", "c", "x">>
        THEN IF doc.fail = "read" THEN [exc |-> "PackageNotFoundError", store |-> store]
             ELSE Done(EmbedChunks(store, doc.text,
                               [type |-> <<"d", "o", "c", "x">>, file |-> name]))
        ELSE IF suffix = <<".", "p", "d", "f">>
        THEN IF doc.fail = "read" THEN [exc |-> "PDFSyntaxError", store |-> store]
             ELSE Done(PdfImagePages(PdfTextPages(store, name, doc.pages, 1), name, doc,
                                     IF doc.fail = "render" THEN 0 ELSE Len(doc.pages),
                                     ocr, 1))
        ELSE IF suffix \in {<<".", "p", "n", "g">>, <<".", "j", "p", "g">>,
                            <<".", "j", "p", "e", "g">>}
        THEN IF doc.fail = "decode" THEN Done(store)
             ELSE Done(add_image(store, ImageEmbedding,
                                 [type |-> <<"i", "m", "a", "g", "e">>, file |-> name]).store)
        ELSE IF suffix = <<".", "c", "s", "v">>
        THEN Done(ingest_csv_file(store, name, doc))
        ELSE Done(store)

\* the files of the model
T_ab == <<"a", " ", "b">>

Docs ==
    {[suffix |-> <<".", "t", "x", "t">>, text |-> T_ab, fail |-> "none"],
     [suffix |-> <<".", "m", "d">>, text |-> T_ab, fail |-> "read"],
     [suffix |-> <<".", "d", "o", "c", "x">>, text |-> T_ab, fail |-> "read"],
     [suffix |-> <<".", "P", "D", "F">>, pages |-> <<T_ab, <<" ">> >>, ocr_text |-> T_ab,
      fail |-> "none"],
     [suffix |-> <<".", "p", "d", "f">>, pages |-> <<T_ab>>, ocr_text |-> T_ab,
      fail |-> "read"],
     [suffix |-> <<".", "p", "d", "f">>, pages |-> <<T_ab>>, ocr_text |-> T_ab,
      fail |-> "render"],
     [suffix |-> <<".", "p", "d", "f">>, pages |-> <<T_ab>>, ocr_text |-> T_ab,
      fail |-> "pages"],
     [suffix |-> <<".", "p", "n", "g">>, fail |-> "none"],
     [suffix |-> <<".", "j", "p", "g">>, fail |-> "decode"],
     [suffix |-> <<".", "c", "s", "v">>, origin_dir |-> <<"m", "a", "r", "k", "e", "t", "s">>,
      has_src_col |-> FALSE, rows |-> <<"">>, fail |-> "none"],
     [suffix |-> <<".", "c", "s", "v">>, origin_dir |-> <<"d", "o", "c", "s">>,
      has_src_col |-> TRUE,
      rows |-> [n \in 1..(BlockSize + 1) |-> IF n <= BlockSize THEN "binance" ELSE ""],
      fail |-> "none"],
     [suffix |-> <<".", "c", "s", "v">>, origin_dir |-> <<"d", "o", "c", "s">>,
      has_src_col |-> FALSE, rows |-> <<>>, fail |-> "parse"],
     [suffix |-> <<".", "b", "i", "n">>, fail |-> "none"]}

RECURSIVE DocSeqs(_)
DocSeqs(n) ==
    IF n = 0 THEN {<<>>}
    ELSE DocSeqs(n - 1)
            \cup {Append(ds, d) : ds \in {x \in DocSeqs(n - 1) : Len(x) = n - 1}, d \in Docs}

\* the name of the n-th file of the sorted listing
Digits == <<"1", "2", "3", "4", "5", "6", "7", "8", "9">>
NameOf(n, doc) == <<"d", Digits[n]>> \o doc.suffix

\* the OCR settings of the run; "enabled" stands for the whole condition
\* "ocr_enabled and pytesseract is not None"
OcrSettings ==
    {[enabled |-> FALSE, lang |-> <<"e", "n", "g">>],
     [enabled |-> TRUE, lang |-> <<"e", "n", "g">>]}

NoRun ==
    [pc |-> "idle", docs |-> <<>>, i |-> 0, ocr |-> [enabled |-> FALSE, lang |-> <<>>],
     saves |-> 0, exc |-> "none"]

(***************************************************************************)
(* Router: one call of router on a question.                               *)
(***************************************************************************)
IdleRouter == question = <<>> /\ plan = NoPlan
IdleChunk ==
    txt = <<>> /\ size = 0 /\ overlap = 0 /\ chunks = <<>> /\ chunked = FALSE /\ chunk_i = 0
IdleStore == vs = NewVectorStore /\ call = NoCall
IdleRetr == disk = NoDisk /\ retriever = NotBuilt /\ res = NoResult
IdleAsk == cfg_file = Absent /\ cfg_cache = NoCache /\ resp = NoResp
IdleRun == run = NoRun

InitRouter ==
    /\ question \in Questions
    /\ plan = NoPlan
    /\ IdleChunk
    /\ IdleStore
    /\ IdleRetr
    /\ IdleAsk
    /\ IdleRun

Route ==
    /\ plan = NoPlan
    /\ plan' = router(question)
    /\ UNCHANGED <<question, chunkVars, storeVars, retrVars, askVars, run>>

NextRouter == Route

SpecRouter == InitRouter /\ [][NextRouter]_vars

(***************************************************************************)
(* Chunker: one call of chunk_text.                                        *)
(***************************************************************************)
InitChunk ==
    /\ txt \in Texts
    /\ size \in Sizes
    /\ overlap \in Overlaps
    /\ chunks = <<>>
    /\ chunked = FALSE
    /\ chunk_i = 0
    /\ IdleRouter
    /\ IdleStore
    /\ IdleRetr
    /\ IdleAsk
    /\ IdleRun

Chunk ==
    /\ ~chunked
    /\ chunks' = chunk_text(txt, size, overlap)
    /\ chunked' = TRUE
    /\ UNCHANGED <<txt, size, overlap, chunk_i, routerVars, storeVars, retrVars, askVars, run>>

NextChunk == Chunk

SpecChunk == InitChunk /\ [][NextChunk]_vars

(***************************************************************************)
(* Chunker, step by step: one call of chunk_text, an action for each pass  *)
(* through the body of its while loop and one for its return.  The call    *)
(* runs on once started, hence the weak fairness of its steps.             *)
(***************************************************************************)
\* the text of n one-letter tokens, a and b in turn, single spaces between
RECURSIVE TokenText(_)
TokenText(n) ==
    IF n = 0 THEN <<>>
    ELSE (IF n = 1 THEN <<>> ELSE TokenText(n - 1) \o <<" ">>)
            \o <<IF n % 2 = 1 THEN "a" ELSE "b">>

\* the texts of the stepwise call: the loop reads the token list only, so
\* one text for each number of tokens, and texts with other whitespace
LoopTexts ==
    {TokenText(n) : n \in 0..MaxTokens}
        \cup {<<" ">>, <<" ", "a", " ", " ", "b", " ">>}

\* a cap on the chunks of a behaviour; chunk_text itself has none
MaxChunks == MaxTokens + 1

InitChunkLoop ==
    /\ txt \in LoopTexts
    /\ size \in Sizes
    /\ overlap \in Overlaps
    /\ chunks = <<>>
    /\ chunked = FALSE
    /\ chunk_i = 0
    /\ IdleRouter
    /\ IdleStore
    /\ IdleRetr
    /\ IdleAsk
    /\ IdleRun

\* one pass through the loop body: "while i < len(tokens)" holds
ChunkStep ==
    /\ ~chunked
    /\ chunk_i < Len(Split(txt))
    /\ Len(chunks) < MaxChunks
    /\ LET chunk == Join(Slice(Split(txt), chunk_i, chunk_i + size))
       IN  chunks' = IF Strip(chunk) # <<>> THEN Append(chunks, chunk) ELSE chunks
    /\ chunk_i' = chunk_i + Step(size, overlap)
    /\ UNCHANGED <<txt, size, overlap, chunked, routerVars, storeVars, retrVars, askVars, run>>

\* the loop condition fails and chunk_text returns chunks
ChunkReturn ==
    /\ ~chunked
    /\ chunk_i >= Len(Split(txt))
    /\ chunked' = TRUE
    /\ UNCHANGED <<txt, size, overlap, chunks, chunk_i, routerVars, storeVars, retrVars,
                   askVars, run>>

NextChunkLoop == ChunkStep \/ ChunkReturn

SpecChunkLoop == InitChunkLoop /\ [][NextChunkLoop]_vars /\ WF_vars(NextChunkLoop)

(***************************************************************************)
(* VectorStore: a sequence of add_text and add_image calls on a new store. *)
(***************************************************************************)
InitStore ==
    /\ vs = NewVectorStore
    /\ call = NoCall
    /\ IdleRouter
    /\ IdleChunk
    /\ IdleRetr
    /\ IdleAsk
    /\ IdleRun

Calls == Len(vs.text_meta) + Len(vs.image_meta)

AddText ==
    /\ Calls < MaxCalls
    /\ \E vec \in Arrays, meta \in StoreMetas :
          \E r \in {add_text(vs, vec, meta)} :
              /\ vs' = r.store
              /\ call' = [op |-> "add_text", exc |-> r.exc, shape |-> vec.shape,
                          vec |-> vec, meta |-> meta, pre |-> vs]
    /\ UNCHANGED <<routerVars, chunkVars, retrVars, askVars, run>>

AddImage ==
    /\ Calls < MaxCalls
    /\ \E vec \in Arrays, meta \in StoreMetas :
          \E r \in {add_image(vs, vec, meta)} :
              /\ vs' = r.store
              /\ call' = [op |-> "add_image", exc |-> r.exc, shape |-> vec.shape,
                          vec |-> vec, meta |-> meta, pre |-> vs]
    /\ UNCHANGED <<routerVars, chunkVars, retrVars, askVars, run>>

NextStore == AddText \/ AddImage

SpecStore == InitStore /\ [][NextStore]_vars

(***************************************************************************)
(* Retriever: one construction from a store directory, then a search.  A   *)
(* search reads the Retriever and changes nothing of it, so the searches   *)
(* of one behaviour are those of its first search.                         *)
(***************************************************************************)
InitRetriever ==
    /\ disk \in Disks
    /\ retriever = NotBuilt
    /\ res = NoResult
    /\ IdleRouter
    /\ IdleChunk
    /\ IdleStore
    /\ IdleAsk
    /\ IdleRun

Construct ==
    /\ retriever.state = "none"
    /\ \E r \in {Retriever(disk)} :
           retriever' = [state |-> IF r.exc = "none" THEN "built" ELSE "failed",
                         exc |-> r.exc, obj |-> r.obj]
    /\ UNCHANGED <<disk, res, routerVars, chunkVars, storeVars, askVars, run>>

SearchText ==
    /\ retriever.state = "built"
    /\ res.op = "none"
    /\ \E q \in QueryArrays, k \in Ks, p \in Predicates :
          \E r \in {search_text(retriever.obj, q, k, p)} :
              res' = [op |-> "search_text", q |-> q, k |-> k, p |-> p,
                      exc |-> r.exc, pairs |-> r.pairs]
    /\ UNCHANGED <<disk, retriever, routerVars, chunkVars, storeVars, askVars, run>>

SearchImage ==
    /\ retriever.state = "built"
    /\ res.op = "none"
    /\ \E q \in QueryArrays, k \in Ks, p \in Predicates :
          \E r \in {search_image(retriever.obj, q, k, p)} :
              res' = [op |-> "search_image", q |-> q, k |-> k, p |-> p,
                      exc |-> r.exc, pairs |-> r.pairs]
    /\ UNCHANGED <<disk, retriever, routerVars, chunkVars, storeVars, askVars, run>>

NextRetriever == Construct \/ SearchText \/ SearchImage

SpecRetriever == InitRetriever /\ [][NextRetriever]_vars

(***************************************************************************)
(* Serving: calls of ask in one process, on a settings file and a store    *)
(* directory.                                                              *)
(***************************************************************************)
InitAsk ==
    /\ cfg_file \in CfgFiles
    /\ cfg_cache = NoCache
    /\ disk \in AskDisks
    /\ retriever = NotBuilt
    /\ res = NoResult
    /\ resp = NoResp
    /\ IdleRouter
    /\ IdleChunk
    /\ IdleStore
    /\ IdleRun

Ask ==
    /\ resp.n < MaxAsks
    /\ \E q \in AskQuestions, enc \in Encodings :
          \E r \in {ask(q, cfg_file, cfg_cache, enc, disk, retriever)} :
              /\ resp' = [n |-> resp.n + 1, q |-> q, enc |-> enc, disk |-> disk,
                          raised |-> r.raised,
                          exc |-> r.exc,
                          plan |-> r.plan, hits |-> r.hits, answer |-> r.answer]
              /\ cfg_cache' = r.cfgc
              /\ retriever' = r.cache
    /\ UNCHANGED <<cfg_file, disk, res, routerVars, chunkVars, storeVars, run>>

NextAsk == Ask

SpecAsk == InitAsk /\ [][NextAsk]_vars

(***************************************************************************)
(* Ingestion: one run of main() over the sorted listing of a directory.    *)
(***************************************************************************)
InitIngest ==
    /\ run \in {[pc |-> "start", docs |-> ds, i |-> 0, ocr |-> o, saves |-> 0, exc |-> "none"] :
                    ds \in DocSeqs(MaxDocs), o \in OcrSettings}
    /\ vs = NewVectorStore
    /\ call = NoCall
    /\ disk = NoDisk
    /\ retriever = NotBuilt
    /\ res = NoResult
    /\ IdleRouter
    /\ IdleChunk
    /\ IdleAsk

\* main up to the loop: the VectorStore is constructed, which creates the
\* storage directory
Begin ==
    /\ run.pc = "start"
    /\ vs' = NewVectorStore
    /\ disk' = [disk EXCEPT !.exists = TRUE]
    /\ run' = [run EXCEPT !.pc = "loop", !.i = 1]
    /\ UNCHANGED <<call, retriever, res, routerVars, chunkVars, askVars>>

\* one iteration of "for fp in docs"; an exception leaving the body ends main
NextFile ==
    /\ run.pc = "loop"
    /\ run.i <= Len(run.docs)
    /\ \E r \in {IngestFile(vs, NameOf(run.i, run.docs[run.i]), run.docs[run.i], run.ocr)} :
          /\ vs' = r.store
          /\ run' = IF r.exc = "none" THEN [run EXCEPT !.i = @ + 1]
                    ELSE [run EXCEPT !.pc = "aborted", !.exc = r.exc]
    /\ UNCHANGED <<call, disk, retriever, res, routerVars, chunkVars, askVars>>

\* vs.save() after the loop, and the return of main
Save ==
    /\ run.pc = "loop"
    /\ run.i > Len(run.docs)
    /\ disk' = Saved(vs)
    /\ run' = [run EXCEPT !.pc = "done", !.saves = @ + 1]
    /\ UNCHANGED <<vs, call, retriever, res, routerVars, chunkVars, askVars>>

NextIngest == Begin \/ NextFile \/ Save

SpecIngest == InitIngest /\ [][NextIngest]_vars

(***************************************************************************)
(* Serving during ingestion: one serving process answering calls of ask    *)
(* while one run of main() builds and persists the store directory.        *)
(***************************************************************************)
InitServe ==
    /\ run \in {[pc |-> "start", docs |-> ds, i |-> 0, ocr |-> o, saves |-> 0, exc |-> "none"] :
                    ds \in DocSeqs(1), o \in {x \in OcrSettings : ~x.enabled}}
    /\ vs = NewVectorStore
    /\ call = NoCall
    /\ disk = NoDisk
    /\ retriever = NotBuilt
    /\ res = NoResult
    /\ IdleRouter
    /\ IdleChunk
    /\ IdleAsk

NextServe == Begin \/ NextFile \/ Save \/ Ask

SpecServe == InitServe /\ [][NextServe]_vars

(***************************************************************************)
(* Claims about router.                                                    *)
(***************************************************************************)
\* C8: router classifies by first match in the order vision > table > calc >
\* text: a question matching a vision term yields vision_qa whatever else it
\* matches, one matching a table term and no vision term yields table_to_csv,
\* one matching only calc terms yields calc, one matching none yields text_qa,
\* the steps are the fixed plan of the task, and the four example questions
\* are routed to vision_qa, table_to_csv, calc and text_qa.
C8_RouterPriority ==
    plan # NoPlan =>
        /\ MatchesVision(question) => plan = VisionPlan
        /\ (~MatchesVision(question) /\ MatchesTable(question)) => plan = TablePlan
        /\ (~MatchesVision(question) /\ ~MatchesTable(question) /\ MatchesCalc(question))
              => plan = CalcPlan
        /\ (~MatchesVision(question) /\ ~MatchesTable(question) /\ ~MatchesCalc(question))
              => plan = TextPlan
        /\ question = Q_vision => plan.task = "vision_qa"
        /\ question = Q_table => plan.task = "table_to_csv"
        /\ question = Q_calc => plan.task = "calc"
        /\ question = Q_text => plan.task = "text_qa"
        /\ plan.task = "vision_qa" =>
              plan.steps = <<"retrieve_image", "vision_parse", "synthesize", "cite">>
        /\ plan.task = "table_to_csv" => plan.steps = <<"table_extract", "synthesize", "cite">>
        /\ plan.task = "calc" =>
              plan.steps = <<"retrieve", "python_calc", "synthesize", "cite">>
        /\ plan.task = "text_qa" => plan.steps = <<"retrieve", "synthesize", "cite">>

\* a routed question that matches a vision term and a table term
C8_Witness ==
    /\ plan # NoPlan
    /\ MatchesVision(question)
    /\ MatchesTable(question)
    /\ plan.task = "vision_qa"

(***************************************************************************)
(* Claims about chunk_text.                                                *)
(***************************************************************************)
\* the tokens of the j-th chunk returned
ChunkTokens(j) == Split(chunks[j])

\* the last m elements, and the first m elements, of a sequence
LastN(s, m) == SubSeq(s, Len(s) - m + 1, Len(s))
FirstN(s, m) == SubSeq(s, 1, m)

\* the tokens of chunks j..Len(chunks), each taken without its first
\* shared(j) tokens
RECURSIVE Fresh(_, _)
Fresh(j, shared) ==
    IF j > Len(chunks) THEN <<>>
    ELSE LET toks == ChunkTokens(j)
             m == IF j = 1 THEN 0 ELSE Min(shared, Len(toks))
         IN  SubSeq(toks, m + 1, Len(toks)) \o Fresh(j + 1, shared)

ChunkCase == chunked /\ Split(txt) # <<>> /\ 0 <= overlap /\ overlap < size

\* C7, as stated: for a non-empty token sequence and 0 <= overlap < size the
\* chunks cover every token in order and every two consecutive chunks share
\* exactly overlap tokens, the last overlap tokens of one being the first
\* overlap tokens of the next.
C7_ExactOverlap ==
    ChunkCase =>
        /\ Fresh(1, overlap) = Split(txt)
        /\ \A j \in 1..(Len(chunks) - 1) :
              /\ Len(ChunkTokens(j)) >= overlap
              /\ Len(ChunkTokens(j + 1)) >= overlap
              /\ LastN(ChunkTokens(j), overlap) = FirstN(ChunkTokens(j + 1), overlap)

\* C7, amended: the chunks cover every token in order, and two consecutive
\* chunks share exactly min(overlap, length of the later chunk) tokens: exactly
\* overlap tokens when the earlier chunk is full (size tokens), and otherwise
\* the later chunk is wholly the tail of the earlier one.
C7_OverlapOrTail ==
    ChunkCase =>
        /\ Fresh(1, overlap) = Split(txt)
        /\ \A j \in 1..(Len(chunks) - 1) :
              LET a == ChunkTokens(j)
                  b == ChunkTokens(j + 1)
                  m == Min(overlap, Len(b))
              IN  /\ Len(a) >= m
                  /\ LastN(a, m) = FirstN(b, m)
                  /\ Len(a) = size => m = overlap
                  /\ Len(a) < size => (m = Len(b) /\ Len(b) < Len(a))

\* a call whose last chunk holds fewer than overlap tokens
C7_Witness ==
    /\ ChunkCase
    /\ Len(chunks) >= 3
    /\ overlap > 0
    /\ Len(ChunkTokens(Len(chunks))) < overlap
    /\ Len(ChunkTokens(1)) = size

\* C18: chunk_text terminates for every text and every integer size and
\* overlap, size <= overlap and size <= 0 included: every pass moves the
\* window start forward by at least one token, so the call returns, with at
\* most len(tokens) chunks, none of them empty, and the chunks are those the
\* whole call computes.
C18_Terminates ==
    /\ <>chunked
    /\ [](/\ Step(size, overlap) >= 1
          /\ Len(chunks) <= Len(Split(txt))
          /\ Len(chunks) <= chunk_i
          /\ \A j \in 1..Len(chunks) : Strip(chunks[j]) # <<>>
          /\ chunked => chunks = chunk_text(txt, size, overlap))

\* a returned call with size <= overlap that produced one chunk for each
\* token of a text of several tokens
C18_Witness ==
    /\ chunked
    /\ size >= 1
    /\ size <= overlap
    /\ Len(Split(txt)) >= 2
    /\ Len(chunks) = Len(Split(txt))
    /\ chunk_i = Len(Split(txt))

\* a returned call with a negative size that produced a chunk
C18_WitnessNegative ==
    /\ chunked
    /\ size < 0
    /\ chunks # <<>>

(***************************************************************************)
(* Claims about VectorStore.                                               *)
(***************************************************************************)
\* C1: after any sequence of add_text and add_image calls, failed ones and
\* every accepted vector shape included, the metadata sequence of each
\* modality is as long as the number of vectors its index holds.
C1_MetaAligned ==
    /\ Len(vs.text_meta) = Len(vs.text_index)
    /\ Len(vs.image_meta) = Len(vs.image_index)

\* the last call was handed one vector: an array of shape (d,) or (1, d)
OneVector ==
    /\ call.op \in {"add_text", "add_image"}
    /\ Len(call.shape) = 1 \/ (Len(call.shape) = 2 /\ call.shape[1] = 1)

\* the length of that vector
VecLen == call.shape[Len(call.shape)]

\* the dimension, index and metadata of the modality of the last call, in a
\* store
CallDim == IF call.op = "add_text" THEN call.pre.dim_text ELSE call.pre.dim_image
CallIndex(store) == IF call.op = "add_text" THEN store.text_index ELSE store.image_index
CallMeta(store) == IF call.op = "add_text" THEN store.text_meta ELSE store.image_meta

\* C11: add_text (resp. add_image) with a vector whose length is not the
\* configured text (resp. image) dimension raises and leaves the index and
\* the metadata of that modality as they were; with a vector of the
\* configured dimension it raises nothing and appends exactly that vector
\* and exactly that metadata entry, at the same position when the two were
\* aligned before.
C11_DimensionChecked ==
    OneVector =>
        /\ VecLen # CallDim =>
              /\ call.exc # "none"
              /\ CallIndex(vs) = CallIndex(call.pre)
              /\ CallMeta(vs) = CallMeta(call.pre)
        /\ VecLen = CallDim =>
              /\ call.exc = "none"
              /\ CallIndex(vs) = Append(CallIndex(call.pre), call.vec.rows[1])
              /\ CallMeta(vs) = Append(CallMeta(call.pre), call.meta)
              /\ Len(CallIndex(call.pre)) = Len(CallMeta(call.pre))
                    => Len(CallIndex(vs)) = Len(CallMeta(vs))

(***************************************************************************)
(* Claims about Retriever.                                                 *)
(***************************************************************************)
Searched == res.op \in {"search_text", "search_image"}

\* the search that res records, with another k and predicate
SearchAgain(k, p) ==
    IF res.op = "search_text" THEN search_text(retriever.obj, res.q, k, p)
    ELSE search_image(retriever.obj, res.q, k, p)

\* the index that res searched
SearchedIndex ==
    IF res.op = "search_text" THEN retriever.obj.text_idx ELSE retriever.obj.img_idx

\* a is b with some entries left out, the others in b's order
RECURSIVE IsSubsequence(_, _)
IsSubsequence(a, b) ==
    IF a = <<>> THEN TRUE
    ELSE IF b = <<>> THEN FALSE
    ELSE IF a[1] = b[1] THEN IsSubsequence(Tail(a), Tail(b))
    ELSE IsSubsequence(a, Tail(b))

\* p applied to a list of pairs, None keeping them all
Filtered(pairs, p) == IF p.fn = "None" THEN pairs ELSE FilterPairs(pairs, p)

\* C4: the predicate is a pure post-filter: a search with k and predicate p
\* returns, in the same order, entries of the search with any k_large >= k and
\* no predicate filtered by p, and exactly the search with the same k and no
\* predicate filtered by p (the predicate changes neither the candidates
\* ranked nor their scores).
C4_PostFilter ==
    (Searched /\ res.exc = "none") =>
        /\ \A kl \in Ks :
              LET big == SearchAgain(kl, NoPredicate)
              IN  (kl >= res.k /\ big.exc = "none") =>
                      IsSubsequence(res.pairs, Filtered(big.pairs, res.p))
        /\ LET same == SearchAgain(res.k, NoPredicate)
           IN  same.exc = "none" /\ res.pairs = Filtered(same.pairs, res.p)

\* a search whose predicate removed a candidate ranked before one it kept
C4_Witness ==
    /\ Searched
    /\ res.exc = "none"
    /\ res.p.fn = "pred"
    /\ res.pairs # <<>>
    /\ LET same == SearchAgain(res.k, NoPredicate)
       IN  Len(same.pairs) > Len(res.pairs) /\ same.pairs[1] # res.pairs[1]

\* C5: a search on a modality whose index holds no vector, or was not loaded,
\* returns the empty sequence and raises nothing, whatever the query, k and
\* predicate.
C5_EmptyIndex ==
    (Searched /\ (~SearchedIndex.loaded \/ ntotal(SearchedIndex) = 0)) =>
        (res.exc = "none" /\ res.pairs = <<>>)

\* searches of an index not loaded and of an empty index, with a query that
\* is not of the searched modality's dimension
C5_Witness ==
    /\ Searched
    /\ ntotal(SearchedIndex) = 0
    /\ res.q.shape = <<DimImage>>
    /\ res.op = "search_text"
    /\ res.k <= 0
    /\ retriever.obj.text_idx.loaded

AnyAbsent ==
    \/ ~disk.exists
    \/ \E f \in {"text_faiss", "image_faiss", "text_meta_json", "image_meta_json"} :
          disk[f].st = "absent"

AnyUnreadable ==
    /\ disk.exists
    /\ \E f \in {"text_faiss", "image_faiss", "text_meta_json", "image_meta_json"} :
          disk[f].st = "corrupt"

QueryDim == res.q.shape[Len(res.q.shape)]

MismatchedSearch == Searched /\ SearchedIndex.loaded /\ QueryDim # SearchedIndex.d

\* C12, as stated: a search whose query dimension differs from the dimension
\* of the loaded index raises the dimension error (ValueError of
\* _prep_query), whatever the index holds and whatever k.
C12_MismatchRaises ==
    MismatchedSearch => res.exc = "ValueError"

\* C12, amended: a search whose query dimension differs from the dimension of
\* the loaded index raises the dimension error, for every k and predicate,
\* exactly when the index holds at least one vector; on a loaded index of no
\* vectors it raises nothing and returns the empty sequence.
C12_MismatchRaisesIfNonEmpty ==
    MismatchedSearch =>
        /\ ntotal(SearchedIndex) > 0 => (res.exc = "ValueError" /\ res.pairs = <<>>)
        /\ ntotal(SearchedIndex) = 0 => (res.exc = "none" /\ res.pairs = <<>>)

\* a search of a non-empty text index with a query of the image dimension
\* and k <= 0 that raised
C12_Witness ==
    /\ MismatchedSearch
    /\ res.op = "search_text"
    /\ ntotal(SearchedIndex) > 0
    /\ QueryDim = DimImage
    /\ res.k <= 0
    /\ res.exc = "ValueError"

\* the metadata list paired with the index that res searched
SearchedMeta ==
    IF res.op = "search_text" THEN retriever.obj.text_meta ELSE retriever.obj.img_meta

\* k clamped to [1, n]
Clamped(k, n) == Min(Max(k, 1), n)

\* C13: on an index of n >= 1 vectors a search with any integer k returns
\* exactly min(max(k, 1), n) pairs without a predicate and never more with
\* one; it does return whenever the query is one row of the index's dimension
\* and the metadata list is not shorter than the index.
C13_ClampK ==
    (Searched /\ ntotal(SearchedIndex) > 0) =>
        LET n == ntotal(SearchedIndex)
        IN  /\ (QueryDim = SearchedIndex.d /\ res.q.rows # <<>> /\ Len(SearchedMeta) >= n)
                  => res.exc = "none"
            /\ res.exc = "none" =>
                  /\ res.p.fn = "None" => Len(res.pairs) = Clamped(res.k, n)
                  /\ Len(res.pairs) <= Clamped(res.k, n)

\* a search with k <= 0 and no predicate of an index of several vectors,
\* returning one pair
C13_Witness ==
    /\ Searched
    /\ ntotal(SearchedIndex) >= 2
    /\ res.k <= 0
    /\ res.p.fn = "None"
    /\ res.exc = "none"
    /\ Len(res.pairs) = 1

\* a search with k above the number of vectors, returning one pair for each
C13_WitnessAbove ==
    /\ Searched
    /\ ntotal(SearchedIndex) >= 2
    /\ res.k > ntotal(SearchedIndex)
    /\ res.p.fn = "None"
    /\ res.exc = "none"
    /\ Len(res.pairs) = ntotal(SearchedIndex)

\* the store directory holds, for a modality, an index file and a metadata
\* file that can both be read and whose lengths differ
MisalignedOnDisk(index_file, meta_file) ==
    /\ disk.exists
    /\ disk[index_file].st = "ok"
    /\ disk[meta_file].st = "ok"
    /\ Len(disk[meta_file].val) # ntotal(disk[index_file].val)

\* res records a search of a loaded index whose metadata list is of another
\* length, with a query of one row of the index's dimension
MisalignedSearch ==
    /\ Searched
    /\ SearchedIndex.loaded
    /\ Len(SearchedMeta) # ntotal(SearchedIndex)
    /\ QueryDim = SearchedIndex.d
    /\ res.q.rows # <<>>

\* C17: a store whose metadata list and index differ in length is loaded
\* with a warning only, and every search of that modality then returns
\* rather than raises, each pair holding the score of a vector of the index
\* and the metadata entry at that vector's position.
C17_MisalignedTolerated ==
    /\ (retriever.state # "none" /\ ~AnyUnreadable
            /\ (MisalignedOnDisk("text_faiss", "text_meta_json")
                  \/ MisalignedOnDisk("image_faiss", "image_meta_json")))
          => (retriever.state = "built" /\ retriever.obj.warned # {})
    /\ MisalignedSearch =>
          /\ res.exc = "none"
          /\ \A n \in 1..Len(res.pairs) :
                \E i \in 1..Min(ntotal(SearchedIndex), Len(SearchedMeta)) :
                    /\ res.pairs[n][2] = SearchedMeta[i]
                    /\ res.pairs[n][1]
                          = Dot(NormalizeRow(res.q.rows[1]), SearchedIndex.vecs[i])

(***************************************************************************)
(* Claims about ask.                                                       *)
(***************************************************************************)
\* C2: ask never raises to its caller: whatever the question, the settings
\* and the store directory, it returns a response with a plan, hits and an
\* answer, and on every failure path the hits are empty and the answer is
\* the explanatory error string.
C2_NeverRaises ==
    resp.n > 0 =>
        /\ ~resp.raised
        /\ resp.plan # NoPlan
        /\ resp.answer # NoAnswer
        /\ resp.exc # "none" =>
              (resp.hits = <<>> /\ resp.answer.kind \in {"error", "error_retrieval_failed"})

\* the coin detected in the question asked
AskedCoin == _extract_coin_id(resp.q)

\* the file name of a hit, lowercased
HitFile(h) == Lower(GetOrEmpty(h[2], "file"))

\* C3: when a coin alias is detected in the question, every hit ask returns
\* has a file equal, letter case aside, to "<coin_id>.csv"; the hits of
\* "ETH ..." on a store holding ethereum.csv and bitcoin.csv records are all
\* of ethereum.csv.
C3_CoinHitsOnly ==
    (resp.n > 0 /\ ~resp.raised) =>
        /\ AskedCoin # None =>
              \A i \in 1..Len(resp.hits) :
                  HitFile(resp.hits[i]) = AskedCoin \o <<".", "c", "s", "v">>
        /\ resp.q = Q_eth =>
              \A i \in 1..Len(resp.hits) :
                  HitFile(resp.hits[i])
                      = <<"e", "t", "h", "e", "r", "e", "u", "m", ".", "c", "s", "v">>

\* "ETH ..." asked of a store whose first record is of bitcoin.csv and which
\* holds a record of ethereum.csv, with a hit returned
C3_Witness ==
    /\ resp.n > 0
    /\ resp.q = Q_eth
    /\ resp.hits # <<>>
    /\ disk.text_meta_json.st = "ok"
    /\ Len(disk.text_meta_json.val) >= 2
    /\ disk.text_meta_json.val[1] = M_btc
    /\ \E i \in 1..Len(disk.text_meta_json.val) : disk.text_meta_json.val[i] = M_eth

\* the response is that of a call whose try block raised nothing
Answered == resp.n > 0 /\ ~resp.raised /\ resp.exc = "none"

\* the configured top_k of the process
TopK == cfg_cache.val.retrieval.top_k_text

\* the candidates of the question asked: the search of the text index for
\* max(20, top_k) pairs with the query asked, in ranking order
Candidates == search_text(retriever.obj, resp.enc.val, Max(OverFetch, TopK), NoPredicate).pairs

\* the candidates kept by the predicate of the question asked
KeptCandidates == Filtered(Candidates, _predicate_for_question(resp.q))

\* C14: the hits ask returns are the first min(3, top_k) entries, in ranking
\* order, of the max(20, top_k) candidates of the text index filtered by the
\* question's predicate (all of them when they are fewer): the predicate is
\* applied before the cut, and there are never more than 3 hits.
C14_FilterThenTruncate ==
    /\ resp.n > 0 => Len(resp.hits) <= MaxHits
    /\ Answered =>
          resp.hits = FirstN(KeptCandidates, Min(Min(MaxHits, TopK), Len(KeptCandidates)))

\* an answer with a hit, for a top_k below the rank of the first candidate
\* the predicate keeps
C14_Witness ==
    /\ Answered
    /\ resp.hits # <<>>
    /\ _predicate_for_question(resp.q).fn = "pred"
    /\ \A n \in 1..Min(TopK, Len(Candidates)) :
          ~ApplyPredicate(_predicate_for_question(resp.q), Candidates[n][2])

\* an answer cut to 3 hits out of more kept candidates
C14_WitnessCut ==
    /\ Answered
    /\ Len(KeptCandidates) > MaxHits
    /\ TopK > MaxHits
    /\ Len(resp.hits) = MaxHits

\* a record of market provenance: its type is csv or its origin_dir is a
\* market directory, letter case aside
MarketProvenance(meta) ==
    \/ "type" \in DOMAIN meta /\ Lower(meta.type) = <<"c", "s", "v">>
    \/ "origin_dir" \in DOMAIN meta /\ Lower(meta.origin_dir) \in MarketDirs

\* the question asked contains a market-analysis term or a coin alias
Restricted == _wants_market_only(resp.q) \/ _extract_coin_id(resp.q) # None

\* C15: when the question contains a market-analysis term or a coin alias,
\* every hit ask returns is of market provenance; when it contains neither,
\* no predicate is applied and the hits are the first min(3, top_k) of the
\* unfiltered candidates, in ranking order.
C15_MarketOnlyIff ==
    Answered =>
        /\ Restricted => \A i \in 1..Len(resp.hits) : MarketProvenance(resp.hits[i][2])
        /\ ~Restricted =>
              /\ _predicate_for_question(resp.q) = NoPredicate
              /\ resp.hits = FirstN(Candidates, Min(Min(MaxHits, TopK), Len(Candidates)))

\* a question with a market-analysis term and no coin alias, answered with a
\* hit, on a store whose best candidate is not of market provenance
C15_Witness ==
    /\ Answered
    /\ _wants_market_only(resp.q)
    /\ _extract_coin_id(resp.q) = None
    /\ resp.hits # <<>>
    /\ Candidates # <<>>
    /\ ~MarketProvenance(Candidates[1][2])

\* a question with neither, answered with a hit that is not of market
\* provenance
C15_WitnessUnfiltered ==
    /\ Answered
    /\ ~Restricted
    /\ \E i \in 1..Len(resp.hits) : ~MarketProvenance(resp.hits[i][2])

(***************************************************************************)
(* Claims about the ingestion run.                                         *)
(***************************************************************************)
Ended == run.pc \in {"done", "aborted"}

\* C9: no failure while processing one file or page aborts the run: the run
\* never ends by an exception, and when it has ended every discovered file
\* has been attempted and the store has been persisted.
C9_FailuresContained ==
    /\ run.pc # "aborted"
    /\ Ended => (run.i > Len(run.docs) /\ run.saves = 1 /\ disk = Saved(vs))

\* C10: every run persists the store exactly once, and only after every
\* discovered file has been attempted: no save before the last file is
\* processed, none twice, and the store does not change after the save.
C10_SavedOnceAtEnd ==
    /\ run.saves <= 1
    /\ run.saves = 1 => (run.i > Len(run.docs) /\ run.pc = "done" /\ disk = Saved(vs))
    /\ Ended => run.saves = 1

\* the n-th discovered file has been processed to its end
Processed(n) == n < run.i

\* the n-th discovered file is a CSV file that pandas can read
ReadableCsv(n) ==
    /\ Lower(run.docs[n].suffix) = <<".", "c", "s", "v">>
    /\ run.docs[n].fail = "none"

\* the text records of the store that carry the name of the n-th file; the
\* names of the listing are distinct
RecordsOf(n) ==
    SelectSeq(vs.text_meta, LAMBDA m : m.file = NameOf(n, run.docs[n]))

\* the provenance tag of a row: the cell of its source column when the file
\* has one and the cell holds a value, the directory default otherwise
ExpectedTag(doc, r) ==
    IF doc.has_src_col /\ doc.rows[r] # "" THEN doc.rows[r]
    ELSE IF doc.origin_dir = <<"m", "a", "r", "k", "e", "t", "s">> THEN "coingecko"
    ELSE IF doc.origin_dir
               = <<"m", "a", "r", "k", "e", "t", "s", "_", "b", "i", "n", "a", "n", "c", "e">>
         THEN "binance"
    ELSE "mixed"

\* C16: a CSV file of n rows leaves exactly ceil(n / 30) text records, the
\* j-th (from 0) tagged type csv, the file name, origin_dir, and source_set
\* the sorted distinct provenance tags of rows 30j .. 30j + 29, a row's tag
\* being its source column value when the file has a source column and the
\* directory default otherwise.
C16_CsvBlocks ==
    \A n \in 1..Len(run.docs) :
        (Processed(n) /\ ReadableCsv(n)) =>
            LET doc == run.docs[n]
                recs == RecordsOf(n)
                rows == Len(doc.rows)
            IN  /\ Len(recs) * BlockSize >= rows
                /\ (Len(recs) - 1) * BlockSize < rows
                /\ \A j \in 1..Len(recs) :
                      recs[j] = [type |-> <<"c", "s", "v">>,
                                 file |-> NameOf(n, doc),
                                 origin_dir |-> doc.origin_dir,
                                 source_set |->
                                    SortedSet({ExpectedTag(doc, r) :
                                                 r \in ((j - 1) * BlockSize + 1)
                                                          ..Min(j * BlockSize, rows)})]

(***************************************************************************)
(* Claims about serving during ingestion.                                  *)
(***************************************************************************)
\* the run has persisted a store with a non-empty text index, and the last
\* ask was issued after that
AskedAfterSave ==
    /\ run.pc = "done"
    /\ Len(vs.text_index) > 0
    /\ resp.n > 0
    /\ resp.disk = Saved(vs)

\* what the last question gets from a process that starts on the directory
\* as it is now
FreshAnswer == ask(resp.q, cfg_file, NoCache, resp.enc, disk, NotBuilt)

\* C19: once the ingestion run has persisted a non-empty text index, every
\* later ask of the serving process retrieves from the persisted store,
\* whatever asks the process answered before (with no store directory, or
\* with the directory created and its files not yet written): its hits are
\* those a process started after the save returns.
C19_LaterAsksSeeStore ==
    AskedAfterSave =>
        /\ retriever.state = "built" => retriever.obj = Retriever(disk).obj
        /\ resp.hits = FreshAnswer.hits
        /\ resp.exc = FreshAnswer.exc

====
